---------------------------- MODULE Spec2Model ----------------------------
(***************************************************************************)
(* A model of the build orchestration core of docs.rs:                     *)
(*   - Metadata (src/docbuilder/metadata/lib.rs): the resolution of the    *)
(*     [package.metadata.docs.rs] table into targets, cargo arguments and  *)
(*     environment variables;                                              *)
(*   - DocBuilder::build_package (src/docbuilder/chroot_builder.rs);       *)
(*   - queue_builder (src/utils/queue_builder.rs), the queue worker loop.  *)
(* Strings are TLA+ strings, which TLC treats as sequences of characters   *)
(* (Len, \o and SubSeq apply to them).                                     *)
(***************************************************************************)
EXTENDS Integers, Sequences, FiniteSets, TLC

VARIABLES
    \* ---- Metadata (metadata/lib.rs)
    host_target,      \* HOST_TARGET, fixed when the crate is compiled
    metadata,         \* the Metadata value the methods are called on
    mpc,              \* which method, if any, has returned
    build_targets,    \* the BuildTargets returned by targets()
    cargo_args_ret,   \* the Vec<String> returned by cargo_args()
    env_ret,          \* the HashMap returned by environment_variables()
    manifest,         \* the manifest text given to Metadata::from_str
    from_str_ret,     \* the Result returned by Metadata::from_str
    \* ---- queue_builder (utils/queue_builder.rs), one entry per worker
    status,           \* the worker's BuilderState
    qpc,              \* the worker's position in the loop
    res,              \* how the worker's last build step ended
    iter,             \* the calls of the worker's current iteration, in order
    prev_obs,         \* how the worker's previous iteration ended
    fault_lock,       \* the worker locked the queue after a panic, and
                      \* nobody has unlocked it since
    \* ---- what the workers share
    locked,           \* the lock of the build queue
    queue_len,        \* the number of crates pending in the build queue
    tempfs,           \* the entries below std::env::temp_dir()
    \* ---- DocBuilder (docbuilder/chroot_builder.rs)
    options,          \* DocBuilderOptions: skip_if_log_exists, skip_if_exists
    cache,            \* self.cache: the packages this process has handled
    db_cache,         \* self.db_cache: the packages the database knows
    caller,           \* who called build_package: "none", "direct", "build_world"
    world,            \* build_world: the crates still to visit, and count
    bpc,              \* the position inside build_package
    pkg,              \* the name and version build_package was called with
    cres,             \* the ChrootBuilderResult `res`
    result,           \* what build_package returned
    trace,            \* what the current call of build_package has done, in order
    cache_at_call,    \* self.cache when build_package was called
    stored,           \* what the current call of build_package has written
                      \* to the database: path prefixes and records
    local_dirs,       \* the local documentation and source directories
    \* ---- parse_rustc_version (docbuilder/chroot_builder.rs)
    version_in,       \* the version string the parser is called on
    shape,            \* the tokens the string was written from, if it has
                      \* the shape `name version (hash YYYY-MM-DD)`
    vpc,              \* whether the parser has been called
    tag               \* what the parser did: a panic, or the value returned

meta_vars == <<host_target, metadata, mpc, build_targets, cargo_args_ret, env_ret,
               manifest, from_str_ret>>

worker_vars == <<status, qpc, res, iter, prev_obs, fault_lock>>

queue_vars == <<worker_vars, locked, queue_len, tempfs>>

build_vars == <<options, cache, db_cache, caller, world, bpc, pkg, cres, result, trace,
                cache_at_call, stored, local_dirs>>

version_vars == <<version_in, shape, vpc, tag>>

(* What the actions of one component leave alone. *)
not_meta_vars == <<queue_vars, build_vars, version_vars>>

not_queue_vars == <<meta_vars, build_vars, version_vars>>

not_build_vars == <<meta_vars, queue_vars, version_vars>>

not_version_vars == <<meta_vars, queue_vars, build_vars>>

vars == <<meta_vars, queue_vars, build_vars, version_vars>>

-----------------------------------------------------------------------------
(* Option<T>: None is the empty sequence, Some(x) the one-element one.     *)
None == <<>>
Some(x) == <<x>>
is_some(o) == o # None
unwrap(o) == o[1]
or_else(o, alt) == IF is_some(o) THEN o ELSE alt
unwrap_or(o, d) == IF is_some(o) THEN unwrap(o) ELSE d

(* The elements of a sequence. *)
Range(s) == {s[i] : i \in DOMAIN s}

(* All sequences over S of length at most n. *)
SeqUpTo(S, n) == UNION {[1..k -> S] : k \in 0..n}

-----------------------------------------------------------------------------
(*                              Metadata                                   *)
-----------------------------------------------------------------------------
MaxTargets == 2
MaxFeatures == 2
MaxArgs == 2

(* HOST_TARGET is env!("DOCS_RS_METADATA_HOST_TARGET"): the build decides  *)
(* it. One candidate is a member of DEFAULT_TARGETS, the other is not.     *)
HostTargets == {"x86_64-unknown-linux-gnu", "aarch64-unknown-linux-gnu"}

DEFAULT_TARGETS ==
    << "i686-pc-windows-msvc",
       "i686-unknown-linux-gnu",
       "x86_64-apple-darwin",
       "x86_64-pc-windows-msvc",
       "x86_64-unknown-linux-gnu" >>

(* Metadata::default() *)
DefaultMetadata ==
    [ features            |-> None,
      all_features        |-> FALSE,
      no_default_features |-> FALSE,
      default_target      |-> None,
      rustc_args          |-> None,
      rustdoc_args        |-> None,
      targets             |-> None ]

(* The values a manifest may give the fields, within the bounds. *)
TargetNames == {"i686-pc-windows-msvc", "i686-apple-darwin", "x86_64-unknown-linux-gnu"}
FeatureNames == {"feature1", "feature2", "--target"}
ArgNames == {"-Z", "--cap-lints"}

OptTarget == {None} \cup {Some(t) : t \in TargetNames}
OptTargetList == {None} \cup {Some(l) : l \in SeqUpTo(TargetNames, MaxTargets)}
OptFeatureList == {None} \cup {Some(l) : l \in SeqUpTo(FeatureNames, MaxFeatures)}
OptArgList == {None} \cup {Some(l) : l \in SeqUpTo(ArgNames, MaxArgs)}

(* The Metadata of the test test_cratesfyi_metadata: every field set. *)
ExampleMetadata ==
    [ features            |-> Some(<<"feature1", "feature2">>),
      all_features        |-> TRUE,
      no_default_features |-> TRUE,
      default_target      |-> Some("x86_64-unknown-linux-gnu"),
      rustc_args          |-> Some(<<"--example-rustc-arg">>),
      rustdoc_args        |-> Some(<<"--example-rustdoc-arg">>),
      targets             |-> Some(<<"x86_64-apple-darwin", "x86_64-pc-windows-msvc">>) ]

SampleMetadata == {DefaultMetadata, ExampleMetadata}

(* targets.iter().next() *)
iter_next(v) == IF v = <<>> THEN None ELSE Some(v[1])

iter_last(v) == IF v = <<>> THEN None ELSE Some(v[Len(v)])

(* .iter().collect::<HashSet<_>>(): insert the elements one after another. *)
RECURSIVE collect(_)
collect(v) == IF v = <<>> THEN {} ELSE collect(SubSeq(v, 1, Len(v) - 1)) \cup {v[Len(v)]}

(* The resolution of the default target, lines 182-191. *)
resolve_default_targets_first(self, host) ==
    unwrap_or(or_else(IF is_some(self.targets) THEN iter_next(unwrap(self.targets)) ELSE None,
                      self.default_target),
              host)

resolve_default_last(self, host) ==
    unwrap_or(or_else(self.default_target,
                      IF is_some(self.targets) THEN iter_last(unwrap(self.targets)) ELSE None),
              host)

resolve_default(self, host) ==
    unwrap_or(or_else(self.default_target,
                      IF is_some(self.targets) THEN iter_next(unwrap(self.targets)) ELSE None),
              host)

(* The candidate set, lines 194-198. *)
candidate_targets_empty_is_unset(self) ==
    IF is_some(self.targets) /\ unwrap(self.targets) # <<>>
    THEN collect(unwrap(self.targets))
    ELSE collect(DEFAULT_TARGETS)

candidate_targets(self) ==
    IF is_some(self.targets) THEN collect(unwrap(self.targets)) ELSE collect(DEFAULT_TARGETS)

(* targets.remove(&default_target), line 200. *)
remove_noop(set, x) == set

remove(set, x) == set \ {x}

(* Metadata::targets *)
targets(self, host) ==
    LET default_target == resolve_default(self, host)
    IN  [ default_target |-> default_target,
          other_targets  |-> remove(candidate_targets(self), default_target) ]

(* Vec<String>::join(sep): the first element, then sep and the element for *)
(* each one that follows; the empty string for the empty list.             *)
RECURSIVE join_from(_, _, _, _)
join_from(v, sep, i, acc) ==
    IF i > Len(v) THEN acc ELSE join_from(v, sep, i + 1, acc \o sep \o v[i])

join_nosep(v, sep) == IF v = <<>> THEN "" ELSE join_from(v, "", 2, v[1])

join(v, sep) == IF v = <<>> THEN "" ELSE join_from(v, sep, 2, v[1])

(* The four stages of Metadata::cargo_args, each a push onto cargo_args. *)
push_features_nonempty(cargo_args, self) ==
    IF is_some(self.features) /\ unwrap(self.features) # <<>>
    THEN cargo_args \o <<"--features", join(unwrap(self.features), " ")>>
    ELSE cargo_args

push_features(cargo_args, self) ==
    IF is_some(self.features)
    THEN cargo_args \o <<"--features", join(unwrap(self.features), " ")>>
    ELSE cargo_args

push_all_features(cargo_args, self) ==
    IF self.all_features THEN Append(cargo_args, "--all-features") ELSE cargo_args

push_no_default_features(cargo_args, self) ==
    IF self.no_default_features THEN Append(cargo_args, "--no-default-features") ELSE cargo_args

(* Metadata::cargo_args *)
cargo_args(self) ==
    push_no_default_features(
        push_all_features(
            push_features(<<"doc", "--lib", "--no-deps">>, self), self), self)

(* The closure `joined` of environment_variables. *)
joined(v) == IF is_some(v) THEN join(unwrap(v), " ") ELSE ""

(* Metadata::environment_variables: the map as a function on its keys. *)
environment_variables(self) ==
    [ k \in {"RUSTFLAGS", "RUSTDOCFLAGS", "DOCS_RS"} |->
        CASE k = "RUSTFLAGS"    -> joined(self.rustc_args)
          [] k = "RUSTDOCFLAGS" -> joined(self.rustdoc_args)
          [] k = "DOCS_RS"      -> "1" ]

(* A toml::Value: its kind and what it holds. A table holds a function     *)
(* from its keys to values, an array a sequence of values.                 *)
String(s) == [kind |-> "String", val |-> s]
Boolean(b) == [kind |-> "Boolean", val |-> b]
Integer(n) == [kind |-> "Integer", val |-> n]
Array(a) == [kind |-> "Array", val |-> a]
Table(t) == [kind |-> "Table", val |-> t]

EmptyMap == [k \in {} |-> None]

(* Result *)
Ok(v) == <<"Ok", v>>
Err(e) == <<"Err", e>>
is_err(r) == r[1] = "Err"

(* A manifest text is either not well-formed TOML or the text of a table.  *)
(* str::parse::<Value>() is the parser of the toml crate: it returns its   *)
(* error for the former and the table the text denotes for the latter.     *)
Malformed == [well_formed |-> FALSE, denotes |-> Table(EmptyMap)]
Text(table) == [well_formed |-> TRUE, denotes |-> Table(table)]
parse(text) == IF text.well_formed THEN Ok(text.denotes) ELSE Err("toml::de::Error")

(* Map::get, and the accessors of Value. Value::get with a string index    *)
(* looks into a table and finds nothing in any other value.                *)
map_get(t, key) == IF key \in DOMAIN t THEN Some(t[key]) ELSE None
get(v, key) == IF v.kind = "Table" THEN map_get(v.val, key) ELSE None
as_table(v) == IF v.kind = "Table" THEN Some(v.val) ELSE None
as_array(v) == IF v.kind = "Array" THEN Some(v.val) ELSE None
as_str(v) == IF v.kind = "String" THEN Some(v.val) ELSE None
as_bool(v) == IF v.kind = "Boolean" THEN Some(v.val) ELSE None

(* Option::and_then *)
and_then(o, f(_)) == IF is_some(o) THEN f(unwrap(o)) ELSE None

(* The `?` of fetch_manifest_tables: the table below `key` of the table o, *)
(* None when o is None, the key is missing or its value is not a table.    *)
get_table(o, key) ==
    LET below(t) == and_then(map_get(t, key), as_table)
    IN  and_then(o, below)

fetch_manifest_tables(value) ==
    get_table(get_table(get_table(get_table(as_table(value),
        "package"), "metadata"), "docs"), "rs")

collect_into_array_lenient(f) ==
    Some(SelectSeq([i \in DOMAIN f |-> IF f[i].kind = "String" THEN f[i].val ELSE ""],
                   LAMBDA x : x # ""))

(* The closure collect_into_array: the strings of the array, None when one *)
(* of its elements is not a string (collect into Option<Vec<String>>).     *)
collect_into_array(f) ==
    IF \A i \in DOMAIN f : is_some(as_str(f[i]))
    THEN Some([i \in DOMAIN f |-> unwrap(as_str(f[i]))])
    ELSE None

string_list(table, key) ==
    and_then(and_then(map_get(table, key), as_array), collect_into_array)

bool_or(table, key, d) == unwrap_or(and_then(map_get(table, key), as_bool), d)

string_of(table, key) == and_then(map_get(table, key), as_str)

(* Metadata::from_str *)
(* The result when the manifest has no [package.metadata.docs.rs] table. *)
without_section_is_error(default) == Err("toml::de::Error")

without_section(default) == Ok(default)

from_str(text) ==
    LET default == DefaultMetadata
        parsed  == parse(text)
        section == fetch_manifest_tables(parsed[2])
        table   == unwrap(section)
    IN  IF is_err(parsed) THEN parsed
        ELSE IF is_some(section)
        THEN Ok([ features            |-> string_list(table, "features"),
                  no_default_features |-> bool_or(table, "no-default-features",
                                                  default.no_default_features),
                  all_features        |-> bool_or(table, "all-features", default.all_features),
                  default_target      |-> string_of(table, "default-target"),
                  targets             |-> string_list(table, "targets"),
                  rustc_args          |-> string_list(table, "rustc-args"),
                  rustdoc_args        |-> string_list(table, "rustdoc-args") ])
        ELSE without_section(default)

NoTargets == [default_target |-> "", other_targets |-> {}]

(* The Metadata values the three methods are called on. Each method reads  *)
(* its own fields; they range over every value within the bounds, and the  *)
(* fields it does not read over those of SampleMetadata.                   *)
TargetsInputs ==
    { [m EXCEPT !.default_target = d, !.targets = t] :
        m \in SampleMetadata, d \in OptTarget, t \in OptTargetList }

CargoInputs ==
    { [m EXCEPT !.features = f, !.all_features = a, !.no_default_features = n] :
        m \in SampleMetadata, f \in OptFeatureList, a \in BOOLEAN, n \in BOOLEAN }

EnvInputs ==
    { [m EXCEPT !.rustc_args = r, !.rustdoc_args = d] :
        m \in SampleMetadata, r \in OptArgList, d \in OptArgList }

InitMetaWith(inputs) ==
    /\ host_target \in HostTargets
    /\ metadata \in inputs
    /\ mpc = "ready"
    /\ build_targets = NoTargets
    /\ cargo_args_ret = <<>>
    /\ env_ret = <<>>
    /\ manifest = Text(EmptyMap)
    /\ from_str_ret = None

CallTargets ==
    /\ mpc = "ready"
    /\ build_targets' = targets(metadata, host_target)
    /\ mpc' = "targets"
    /\ UNCHANGED <<host_target, metadata, cargo_args_ret, env_ret, manifest, from_str_ret,
                   not_meta_vars>>

CallCargoArgs ==
    /\ mpc = "ready"
    /\ cargo_args_ret' = cargo_args(metadata)
    /\ mpc' = "cargo_args"
    /\ UNCHANGED <<host_target, metadata, build_targets, env_ret, manifest, from_str_ret,
                   not_meta_vars>>

CallEnvironmentVariables ==
    /\ mpc = "ready"
    /\ env_ret' = environment_variables(metadata)
    /\ mpc' = "environment_variables"
    /\ UNCHANGED <<host_target, metadata, build_targets, cargo_args_ret, manifest,
                   from_str_ret, not_meta_vars>>

(* The manifests from_str is called on. The docs.rs table gives each key   *)
(* a value of the type from_str looks for, a value of another type, or     *)
(* leaves it out; the tables above it are there, left out, or not tables.  *)
OptionalKey(key, values) == {EmptyMap} \cup {key :> v : v \in values}

FeaturesValues ==
    { Array(<<String("feature1"), String("feature2")>>), Array(<<>>),
      String("feature1"), Array(<<String("feature1"), Integer(1)>>) }

FlagValues == {Boolean(TRUE), Boolean(FALSE), String("true")}

DefaultTargetValues == {String("x86_64-unknown-linux-gnu"), Boolean(TRUE)}

TargetsValues ==
    { Array(<<>>), Array(<<String("x86_64-apple-darwin"), String("x86_64-pc-windows-msvc")>>),
      String("x86_64-apple-darwin") }

RustcArgsValues == {Array(<<String("--example-rustc-arg")>>), Integer(1)}

RustdocArgsValues == {Array(<<String("--example-rustdoc-arg")>>), Array(<<Boolean(TRUE)>>)}

DocsRsTables ==
    { f @@ n @@ a @@ d @@ t @@ r @@ rd :
        f \in OptionalKey("features", FeaturesValues),
        n \in OptionalKey("no-default-features", FlagValues),
        a \in OptionalKey("all-features", FlagValues),
        d \in OptionalKey("default-target", DefaultTargetValues),
        t \in OptionalKey("targets", TargetsValues),
        r \in OptionalKey("rustc-args", RustcArgsValues),
        rd \in OptionalKey("rustdoc-args", RustdocArgsValues) }

(* The values of a key that should hold a table, given the tables it may   *)
(* hold: those tables, the empty table, a string, and the key left out.    *)
Nest(key, tables) ==
    OptionalKey(key, {Table(t) : t \in tables \cup {EmptyMap}} \cup {String("test")})

PackageName == "name" :> String("test")

Manifests ==
    {Malformed} \cup
    { Text(p) :
        p \in OptionalKey("package", {String("test")})
              \cup { "package" :> Table(PackageName @@ m) :
                       m \in Nest("metadata", Nest("docs", Nest("rs", DocsRsTables))) } }

InitFromStr ==
    /\ host_target = "x86_64-unknown-linux-gnu"
    /\ metadata = DefaultMetadata
    /\ mpc = "ready"
    /\ build_targets = NoTargets
    /\ cargo_args_ret = <<>>
    /\ env_ret = <<>>
    /\ manifest \in Manifests
    /\ from_str_ret = None

CallFromStr ==
    /\ mpc = "ready"
    /\ from_str_ret' = from_str(manifest)
    /\ mpc' = "from_str"
    /\ UNCHANGED <<host_target, metadata, build_targets, cargo_args_ret, env_ret, manifest,
                   not_meta_vars>>


-----------------------------------------------------------------------------
(*                             queue_builder                               *)
-----------------------------------------------------------------------------
MaxQueue == 1

(* The worker processes that share the build queue and the temp root. *)
Workers == {"w1", "w2"}

TEMPDIR_PREFIX == "docsrs-docs"

(* str::starts_with *)
starts_with(s, prefix) == Len(s) >= Len(prefix) /\ SubSeq(s, 1, Len(prefix)) = prefix

(* An entry of the temp root (parent = "") or of a directory in it. *)
Entry(parent, name, is_dir) == [parent |-> parent, name |-> name, is_dir |-> is_dir]

(* Entries of the temp root that are no temporary directory of a build:  *)
(* those of the test remove_existing_tempdirs.                             *)
OtherEntries ==
    { Entry("", TEMPDIR_PREFIX \o "file", FALSE),
      Entry("", "other_file", FALSE),
      Entry("", "other_dir", TRUE) }

(* The temporary directory a worker's build creates (tempfile appends a    *)
(* random suffix to the prefix).                                           *)
build_tempdir(w) == Entry("", TEMPDIR_PREFIX \o "." \o w, TRUE)

(* std::fs::read_dir(std::env::temp_dir()) *)
read_dir(fs) == {e \in fs : e.parent = ""}

children(fs, dir) == {c \in fs : c.parent = dir.name}

(* fs::remove_dir_all *)
remove_dir_all(fs, dir) == fs \ ({dir} \cup children(fs, dir))

(* The body of the loop of remove_tempdirs for one entry, with no error. *)
visit_any_prefixed(fs, entry) ==
    IF starts_with(entry.name, TEMPDIR_PREFIX) THEN remove_dir_all(fs, entry) ELSE fs

visit(fs, entry) ==
    IF ~entry.is_dir THEN fs
    ELSE IF starts_with(entry.name, TEMPDIR_PREFIX) THEN remove_dir_all(fs, entry)
    ELSE fs

RECURSIVE visit_all(_, _)
visit_all(fs, entries) ==
    IF entries = {} THEN fs
    ELSE LET e == CHOOSE x \in entries : TRUE
         IN  visit_all(visit(fs, e), entries \ {e})

(* remove_tempdirs: what it may return and leave behind. It returns Ok     *)
(* after visiting every entry. It returns Err when read_dir, an entry, its *)
(* metadata or remove_dir_all fails: the entries visited before that (in   *)
(* the order read_dir chose) have been handled, and a remove_dir_all that  *)
(* failed may have removed part of the directory's contents.               *)
remove_tempdirs(fs) ==
    LET entries == read_dir(fs)
    IN  {[ok |-> TRUE, fs |-> visit_all(fs, entries)]}
        \cup {[ok |-> FALSE, fs |-> visit_all(fs, V)] :
                V \in {X \in SUBSET entries : X # entries \/ entries = {}}}
        \cup UNION {
               {[ok |-> FALSE, fs |-> visit_all(fs, V) \ C] :
                    C \in SUBSET children(fs, f)} :
               V \in SUBSET entries,
               f \in {e \in entries : e.is_dir /\ starts_with(e.name, TEMPDIR_PREFIX)} }

(* BuilderState *)
BuilderState == {"Fresh", "EmptyQueue", "Locked", "QueueInProgress"}

(* The calls of the current iteration. *)
log(w, calls) == [iter EXCEPT ![w] = @ \o calls]

called(w, call) == call \in Range(iter[w])

(* The iteration ends (`continue`, or the end of the loop body). *)
EndIteration(w, obs) ==
    /\ qpc' = [qpc EXCEPT ![w] = "loop"]
    /\ prev_obs' = [prev_obs EXCEPT ![w] = obs]
    /\ iter' = [iter EXCEPT ![w] = <<>>]

(* Lines 30-33: the loop body starts with remove_tempdirs; an error is     *)
(* reported and the body goes on.                                          *)
RemoveTempdirsOrReturn(w) ==
    /\ qpc[w] = "loop"
    /\ \E r \in remove_tempdirs(tempfs) :
        /\ tempfs' = r.fs
        /\ iter' = log(w, IF r.ok THEN <<"remove_tempdirs:ok">>
                          ELSE <<"remove_tempdirs:err", "report_error">>)
        /\ qpc' = [qpc EXCEPT ![w] = IF r.ok THEN "sleep" ELSE "returned"]
    /\ UNCHANGED <<status, res, prev_obs, fault_lock, locked, queue_len, not_queue_vars>>

RemoveTempdirs(w) ==
    /\ qpc[w] = "loop"
    /\ \E r \in remove_tempdirs(tempfs) :
        /\ tempfs' = r.fs
        /\ iter' = log(w, IF r.ok THEN <<"remove_tempdirs:ok">>
                          ELSE <<"remove_tempdirs:err", "report_error">>)
    /\ qpc' = [qpc EXCEPT ![w] = "sleep"]
    /\ UNCHANGED <<status, res, prev_obs, fault_lock, locked, queue_len, not_queue_vars>>

(* Lines 35-37. *)
SleepUnlessBuilt(w) ==
    /\ qpc[w] = "sleep"
    /\ iter' = IF prev_obs[w] # "build" THEN log(w, <<"sleep">>) ELSE iter
    /\ qpc' = [qpc EXCEPT ![w] = "check_lock"]
    /\ UNCHANGED <<status, res, prev_obs, fault_lock, locked, queue_len, tempfs, not_queue_vars>>

Sleep(w) ==
    /\ qpc[w] = "sleep"
    /\ iter' = IF status[w] # "QueueInProgress" THEN log(w, <<"sleep">>) ELSE iter
    /\ qpc' = [qpc EXCEPT ![w] = "check_lock"]
    /\ UNCHANGED <<status, res, prev_obs, fault_lock, locked, queue_len, tempfs, not_queue_vars>>

(* Lines 39-44. *)
CheckLockNoContinue(w) ==
    /\ qpc[w] = "check_lock"
    /\ IF locked
       THEN /\ status' = [status EXCEPT ![w] = "Locked"]
            /\ iter' = log(w, <<"is_locked:true">>)
       ELSE /\ iter' = log(w, <<"is_locked:false">>)
            /\ UNCHANGED status
    /\ qpc' = [qpc EXCEPT ![w] = "pending_count"]
    /\ UNCHANGED <<res, prev_obs, fault_lock, locked, queue_len, tempfs, not_queue_vars>>

CheckLock(w) ==
    /\ qpc[w] = "check_lock"
    /\ IF locked
       THEN /\ status' = [status EXCEPT ![w] = "Locked"]
            /\ EndIteration(w, "locked")
       ELSE /\ iter' = log(w, <<"is_locked:false">>)
            /\ qpc' = [qpc EXCEPT ![w] = "pending_count"]
            /\ UNCHANGED <<status, prev_obs>>
    /\ UNCHANGED <<res, fault_lock, locked, queue_len, tempfs, not_queue_vars>>

(* Lines 46-63: pending_count() fails, or returns the length of the queue. *)
PendingCountPropagates(w) ==
    /\ qpc[w] = "pending_count"
    /\ \/ /\ iter' = log(w, <<"pending_count:err">>)
          /\ qpc' = [qpc EXCEPT ![w] = "returned"]
          /\ UNCHANGED <<status, prev_obs>>
       \/ /\ queue_len = 0
          /\ status' = [status EXCEPT ![w] = "EmptyQueue"]
          /\ EndIteration(w, "empty")
       \/ /\ queue_len > 0
          /\ iter' = log(w, <<"pending_count:n">>)
          /\ status' = [status EXCEPT ![w] = "QueueInProgress"]
          /\ qpc' = [qpc EXCEPT ![w] = "build"]
          /\ UNCHANGED prev_obs
    /\ UNCHANGED <<res, fault_lock, locked, queue_len, tempfs, not_queue_vars>>

PendingCountMarksInProgressFirst(w) ==
    /\ qpc[w] = "pending_count"
    /\ \/ /\ EndIteration(w, "query_error")
          /\ status' = [status EXCEPT ![w] = "QueueInProgress"]
       \/ /\ queue_len = 0
          /\ status' = [status EXCEPT ![w] = "EmptyQueue"]
          /\ EndIteration(w, "empty")
       \/ /\ queue_len > 0
          /\ iter' = log(w, <<"pending_count:n">>)
          /\ status' = [status EXCEPT ![w] = "QueueInProgress"]
          /\ qpc' = [qpc EXCEPT ![w] = "build"]
          /\ UNCHANGED prev_obs
    /\ UNCHANGED <<res, fault_lock, locked, queue_len, tempfs, not_queue_vars>>

PendingCount(w) ==
    /\ qpc[w] = "pending_count"
    /\ \/ /\ EndIteration(w, "query_error")
          /\ UNCHANGED status
       \/ /\ queue_len = 0
          /\ status' = [status EXCEPT ![w] = "EmptyQueue"]
          /\ EndIteration(w, "empty")
       \/ /\ queue_len > 0
          /\ iter' = log(w, <<"pending_count:n">>)
          /\ status' = [status EXCEPT ![w] = "QueueInProgress"]
          /\ qpc' = [qpc EXCEPT ![w] = "build"]
          /\ UNCHANGED prev_obs
    /\ UNCHANGED <<res, fault_lock, locked, queue_len, tempfs, not_queue_vars>>

(* Lines 66-67: build_next_queue_package is entered inside catch_unwind;   *)
(* the build works in a temporary directory of the temp root.              *)
BuildStart(w) ==
    /\ qpc[w] = "build"
    /\ iter' = log(w, <<"build_next_queue_package">>)
    /\ tempfs' = tempfs \cup {build_tempdir(w)}
    /\ qpc' = [qpc EXCEPT ![w] = "building"]
    /\ UNCHANGED <<status, res, prev_obs, fault_lock, locked, queue_len, not_queue_vars>>

(* Lines 66-70: build_next_queue_package returns Ok or Err (reported), or  *)
(* panics. It takes the next crate off the queue, unless it fails to or    *)
(* another worker already has. Its temporary directory is removed when it  *)
(* returns; a panic may leave it behind (lines 80-82).                     *)
BuildFinish(w) ==
    /\ qpc[w] = "building"
    /\ \E outcome \in {"ok", "err", "panic"} :
        /\ res' = [res EXCEPT ![w] = outcome]
        /\ iter' = IF outcome = "err" THEN log(w, <<"report_error">>) ELSE iter
        /\ \/ tempfs' = remove_dir_all(tempfs, build_tempdir(w))
           \/ outcome = "panic" /\ tempfs' = tempfs
    /\ \E n \in {queue_len, IF queue_len > 0 THEN queue_len - 1 ELSE 0} : queue_len' = n
    /\ qpc' = [qpc EXCEPT ![w] = "catch"]
    /\ UNCHANGED <<status, prev_obs, fault_lock, locked, not_queue_vars>>

(* Lines 72-77: after a panic the queue is locked; lock() failing panics   *)
(* out of queue_builder (expect).                                          *)
HandleResultNoLock(w) ==
    /\ qpc[w] = "catch"
    /\ res' = [res EXCEPT ![w] = "none"]
    /\ EndIteration(w, "build")
    /\ UNCHANGED <<status, fault_lock, locked, queue_len, tempfs, not_queue_vars>>

HandleResultLocksOnError(w) ==
    /\ qpc[w] = "catch"
    /\ IF res[w] \in {"panic", "err"}
       THEN \/ /\ locked' = TRUE
               /\ fault_lock' = [fault_lock EXCEPT ![w] = TRUE]
               /\ res' = [res EXCEPT ![w] = "none"]
               /\ EndIteration(w, "build")
            \/ /\ iter' = log(w, <<"lock:err">>)
               /\ qpc' = [qpc EXCEPT ![w] = "panicked"]
               /\ UNCHANGED <<res, locked, fault_lock, prev_obs>>
       ELSE /\ res' = [res EXCEPT ![w] = "none"]
            /\ EndIteration(w, "build")
            /\ UNCHANGED <<locked, fault_lock>>
    /\ UNCHANGED <<status, queue_len, tempfs, not_queue_vars>>

HandleResult(w) ==
    /\ qpc[w] = "catch"
    /\ IF res[w] = "panic"
       THEN \/ /\ locked' = TRUE
               /\ fault_lock' = [fault_lock EXCEPT ![w] = TRUE]
               /\ res' = [res EXCEPT ![w] = "none"]
               /\ EndIteration(w, "build")
            \/ /\ iter' = log(w, <<"lock:err">>)
               /\ qpc' = [qpc EXCEPT ![w] = "panicked"]
               /\ UNCHANGED <<res, locked, fault_lock, prev_obs>>
       ELSE /\ res' = [res EXCEPT ![w] = "none"]
            /\ EndIteration(w, "build")
            /\ UNCHANGED <<locked, fault_lock>>
    /\ UNCHANGED <<status, queue_len, tempfs, not_queue_vars>>

(* One step of the loop of queue_builder. *)
WorkerStep(w) ==
    \/ RemoveTempdirs(w)
    \/ Sleep(w)
    \/ CheckLock(w)
    \/ PendingCount(w)
    \/ BuildStart(w)
    \/ BuildFinish(w)
    \/ HandleResult(w)

(* What happens around the workers: crates are queued, and an operator     *)
(* sets or removes the lock.                                               *)
Enqueue ==
    /\ queue_len < MaxQueue
    /\ queue_len' = queue_len + 1
    /\ UNCHANGED <<worker_vars, locked, tempfs, not_queue_vars>>

OperatorLock ==
    /\ ~locked
    /\ locked' = TRUE
    /\ UNCHANGED <<worker_vars, queue_len, tempfs, not_queue_vars>>

OperatorUnlock ==
    /\ locked
    /\ locked' = FALSE
    /\ fault_lock' = [w \in Workers |-> FALSE]
    /\ UNCHANGED <<status, qpc, res, iter, prev_obs, queue_len, tempfs, not_queue_vars>>

InitWorkers ==
    /\ status = [w \in Workers |-> "Fresh"]
    /\ qpc = [w \in Workers |-> "loop"]
    /\ res = [w \in Workers |-> "none"]
    /\ iter = [w \in Workers |-> <<>>]
    /\ prev_obs = [w \in Workers |-> "fresh"]
    /\ fault_lock = [w \in Workers |-> FALSE]

InitQueue ==
    /\ InitWorkers
    /\ locked \in BOOLEAN
    /\ queue_len = 0
    /\ tempfs = OtherEntries

(* The temp roots remove_tempdirs is run on when the workers start: at     *)
(* least one directory left behind by a build, with or without contents,   *)
(* next to entries that are no temporary directory, one of them a prefixed *)
(* directory inside another directory.                                     *)
StaleA == Entry("", TEMPDIR_PREFIX \o ".a", TRUE)

StaleB == Entry("", TEMPDIR_PREFIX, TRUE)

StaleContents ==
    { Entry(StaleA.name, "target", TRUE), Entry(StaleA.name, "Cargo.toml", FALSE) }

NestedEntries == { Entry("other_dir", TEMPDIR_PREFIX \o ".nested", TRUE) }

closed(fs) == \A e \in fs : e.parent = "" \/ \E d \in fs : d.is_dir /\ d.name = e.parent

TempRoots ==
    { fs \in SUBSET ({StaleA, StaleB} \cup StaleContents \cup OtherEntries \cup NestedEntries) :
        closed(fs) /\ fs \cap {StaleA, StaleB} # {} }

InitTempRoots ==
    /\ InitWorkers
    /\ locked = FALSE
    /\ queue_len = 0
    /\ tempfs \in TempRoots

NextTempdirs == \E w \in Workers : RemoveTempdirs(w)

NextQueue ==
    \/ \E w \in Workers : WorkerStep(w)
    \/ Enqueue
    \/ OperatorLock
    \/ OperatorUnlock


-----------------------------------------------------------------------------
(*                               DocBuilder                                *)
-----------------------------------------------------------------------------

(* The crates of the index: name and version. *)
Crates == { <<"rand", "0.3.14">>, <<"log", "0.3.6">> }

(* format!("{}-{}", name, version): the key of both caches, and            *)
(* canonical_name.                                                         *)
canonical_name(c) == c[1] \o "-" \o c[2]

(* format!("{}/{}", name, version) *)
name_slash_version(c) == c[1] \o "/" \o c[2]

Identities == {canonical_name(c) : c \in Crates}

(* What `rustc --version` may print in the chroot (trimmed). *)
RustcVersions ==
    { "rustc 1.10.0-nightly (57ef01513 2016-05-23)",
      "rustc 1.10.0-nightly",
      "warning: rustc 1.10.0-nightly (57ef01513 2016-05-23)",
      "rustc 1.10.0-nightly (57ef01513 2016-05-23) extra",
      "rustc 1.10.0-nightly (57ef01513 16-5-23)" }

Digits == {"0", "1", "2", "3", "4", "5", "6", "7", "8", "9"}

Letters ==
    { "a", "b", "c", "d", "e", "f", "g", "h", "i", "j", "k", "l", "m",
      "n", "o", "p", "q", "r", "s", "t", "u", "v", "w", "x", "y", "z",
      "A", "B", "C", "D", "E", "F", "G", "H", "I", "J", "K", "L", "M",
      "N", "O", "P", "Q", "R", "S", "T", "U", "V", "W", "X", "Y", "Z" }

(* \w, \d and [\w-.] *)
WordChars == Letters \cup Digits \cup {"_"}

VersionChars == WordChars \cup {"-", "."}

char_at(s, i) == SubSeq(s, i, i)

run_end_single(s, i, class) ==
    IF i <= Len(s) /\ char_at(s, i) \in class THEN i + 1 ELSE i

(* The index after the longest run of characters of `class` from index i. *)
RECURSIVE run_end(_, _, _)
run_end(s, i, class) ==
    IF i <= Len(s) /\ char_at(s, i) \in class THEN run_end(s, i + 1, class) ELSE i

(* The literal l stands at index i. *)
lit(s, i, l) == i + Len(l) - 1 <= Len(s) /\ SubSeq(s, i, i + Len(l) - 1) = l

(* A match of  ([\w-.]+) \((\w+) (\d+)-(\d+)-(\d+)\)  that starts at index *)
(* i: its five captures, or None. Every repetition is followed by a        *)
(* literal outside its class, so the greedy match takes each run whole.    *)
match_at(s, i) ==
    LET a1 == i + 1
        e1 == run_end(s, a1, VersionChars)
        a2 == e1 + 2
        e2 == run_end(s, a2, WordChars)
        a3 == e2 + 1
        e3 == run_end(s, a3, Digits)
        a4 == e3 + 1
        e4 == run_end(s, a4, Digits)
        a5 == e4 + 1
        e5 == run_end(s, a5, Digits)
    IN  IF /\ lit(s, i, " ")  /\ e1 > a1
           /\ lit(s, e1, " (") /\ e2 > a2
           /\ lit(s, e2, " ")  /\ e3 > a3
           /\ lit(s, e3, "-")  /\ e4 > a4
           /\ lit(s, e4, "-")  /\ e5 > a5
           /\ lit(s, e5, ")")
        THEN Some(<< SubSeq(s, a1, e1 - 1), SubSeq(s, a2, e2 - 1), SubSeq(s, a3, e3 - 1),
                     SubSeq(s, a4, e4 - 1), SubSeq(s, a5, e5 - 1) >>)
        ELSE None

(* Regex::captures: the leftmost match. *)
RECURSIVE captures_from(_, _)
captures_from(s, i) ==
    IF i > Len(s) THEN None
    ELSE IF is_some(match_at(s, i)) THEN match_at(s, i)
    ELSE captures_from(s, i + 1)

captures(s) == captures_from(s, 1)

parse_rustc_version_hash_first(v) ==
    LET c == captures(v)
    IN  IF is_some(c)
        THEN [panic |-> FALSE,
              value |-> c[1][3] \o c[1][4] \o c[1][5] \o "-" \o c[1][2] \o "-" \o c[1][1]]
        ELSE [panic |-> TRUE, value |-> ""]

(* parse_rustc_version: `expect` panics when there is no match. *)
parse_rustc_version(version) ==
    LET c == captures(version)
    IN  IF is_some(c)
        THEN [panic |-> FALSE,
              value |-> c[1][3] \o c[1][4] \o c[1][5] \o "-" \o c[1][1] \o "-" \o c[1][2]]
        ELSE [panic |-> TRUE, value |-> ""]

(* The strings the parser is called on: every string written from the     *)
(* tokens below in the shape `name version (hash YYYY-MM-DD)`, and strings *)
(* that leave the shape.                                                   *)
ToolNames == {"rustc", "cratesfyi", "toolname"}

ToolVersions == {"1.10.0-nightly", "0.2.0", "1.9.0-beta.2"}

CommitHashes == {"57ef01513", "ba9ae23"}

Years == {"2016", "2015"}

Months == {"05", "12"}

Days == {"23", "26"}

Shapes ==
    [name : ToolNames, version : ToolVersions, hash : CommitHashes,
     year : Years, month : Months, day : Days]

written(sh) ==
    sh.name \o " " \o sh.version \o " (" \o sh.hash \o " "
        \o sh.year \o "-" \o sh.month \o "-" \o sh.day \o ")"

Unshaped ==
    { "rustc 1.10.0-nightly",
      "rustc 1.10.0-nightly (57ef01513)",
      "rustc 1.10.0-nightly 57ef01513 2016-05-23",
      "rustc 1.10.0-nightly (57ef01513 2016/05/23)",
      "rustc 1.10.0-nightly (57ef01513 16-5-23)",
      "1.10.0-nightly (57ef01513 2016-05-23)",
      "warning: rustc 1.10.0-nightly (57ef01513 2016-05-23)",
      "rustc 1.10.0-nightly (57ef01513 2016-05-23) extra",
      "" }

NoTag == [panic |-> FALSE, value |-> ""]

IdleVersion ==
    /\ version_in = ""
    /\ shape = None
    /\ vpc = "ready"
    /\ tag = NoTag

InitVersion ==
    /\ \/ \E sh \in Shapes : version_in = written(sh) /\ shape = Some(sh)
       \/ version_in \in Unshaped /\ shape = None
    /\ vpc = "ready"
    /\ tag = NoTag

CallParseRustcVersion ==
    /\ vpc = "ready"
    /\ tag' = parse_rustc_version(version_in)
    /\ vpc' = "returned"
    /\ UNCHANGED <<version_in, shape, not_version_vars>>

(* The condition of the `if` at lines 58-61. *)
skip_both(opts, local, durable, c) ==
    /\ opts.skip_if_log_exists /\ canonical_name(c) \in local
    /\ opts.skip_if_exists /\ canonical_name(c) \in durable

skip(opts, local, durable, c) ==
    \/ opts.skip_if_log_exists /\ canonical_name(c) \in local
    \/ opts.skip_if_exists /\ canonical_name(c) \in durable

NoResult == [build_success |-> FALSE, have_doc |-> FALSE, rustc_version |-> ""]

doc_dir(c) == "doc/" \o name_slash_version(c)

src_dir(c) == "src/" \o name_slash_version(c)

did(what) == trace' = Append(trace, what)

(* build_package returns, Ok or Err (try!). *)
ReturnWith(r) ==
    /\ result' = r
    /\ bpc' = "returned"

(* A panic unwinds out of build_package. *)
Panic ==
    /\ result' = "panic"
    /\ bpc' = "returned"

(* build_package is called, by build_world (line 36) or directly. *)
Enter(c, who) ==
    /\ caller' = who
    /\ pkg' = c
    /\ bpc' = "connect_db"
    /\ cache_at_call' = cache
    /\ UNCHANGED <<cres, result, trace, stored>>

(* The call is over: its locals are dropped. *)
Leave ==
    /\ bpc' = "idle"
    /\ pkg' = <<"", "">>
    /\ cres' = NoResult
    /\ result' = "none"
    /\ trace' = <<>>
    /\ cache_at_call' = {}
    /\ stored' = {}

CallBuildPackage ==
    /\ caller = "none"
    /\ \E c \in Crates : Enter(c, "direct")
    /\ UNCHANGED <<options, cache, db_cache, world, local_dirs, not_build_vars>>

ConnectDbAfterSkipDecision ==
    /\ bpc = "connect_db"
    /\ IF skip(options, cache, db_cache, pkg)
       THEN ReturnWith("Ok(false)") /\ UNCHANGED trace
       ELSE \/ did("connect_db:ok") /\ bpc' = "get_package" /\ UNCHANGED result
            \/ did("connect_db:err") /\ ReturnWith("Err")
    /\ UNCHANGED <<options, cache, db_cache, caller, world, pkg, cres, cache_at_call,
                   stored, local_dirs, not_build_vars>>

(* Line 55. *)
ConnectDb ==
    /\ bpc = "connect_db"
    /\ \/ did("connect_db:ok") /\ bpc' = "skip" /\ UNCHANGED result
       \/ did("connect_db:err") /\ ReturnWith("Err")
    /\ UNCHANGED <<options, cache, db_cache, caller, world, pkg, cres, cache_at_call,
                   stored, local_dirs, not_build_vars>>

(* Lines 58-64. *)
SkipDecision ==
    /\ bpc = "skip"
    /\ IF skip(options, cache, db_cache, pkg)
       THEN ReturnWith("Ok(false)")
       ELSE bpc' = "get_package" /\ UNCHANGED result
    /\ UNCHANGED <<options, cache, db_cache, caller, world, pkg, cres, trace, cache_at_call,
                   stored, local_dirs, not_build_vars>>

(* Line 68. *)
GetPackage ==
    /\ bpc = "get_package"
    /\ \/ did("get_package:" \o pkg[1] \o " =" \o pkg[2] \o ":ok")
          /\ bpc' = "build_package_in_chroot" /\ UNCHANGED result
       \/ did("get_package:" \o pkg[1] \o " =" \o pkg[2] \o ":err")
          /\ ReturnWith("Err")
    /\ UNCHANGED <<options, cache, db_cache, caller, world, pkg, cres, cache_at_call,
                   stored, local_dirs, not_build_vars>>

(* Lines 92-120, with get_versions (lines 222-231): a version command that *)
(* fails panics (expect); then one `cratesfyi doc` command. A command that *)
(* cannot be started panics (the unwrap of chroot_command).                *)
BuildPackageInChroot ==
    /\ bpc = "build_package_in_chroot"
    /\ LET versions == <<"chroot_command:rustc --version", "chroot_command:cratesfyi --version">>
           cmd == "chroot_command:cratesfyi doc " \o pkg[1] \o " =" \o pkg[2]
       IN  \/ /\ trace' = trace \o <<versions[1]>>
              /\ Panic
              /\ UNCHANGED cres
           \/ /\ trace' = trace \o versions
              /\ Panic
              /\ UNCHANGED cres
           \/ /\ trace' = trace \o versions \o <<cmd>>
              /\ Panic
              /\ UNCHANGED cres
           \/ \E v \in RustcVersions, ok \in BOOLEAN, doc \in BOOLEAN :
              /\ trace' = trace \o versions \o <<cmd>>
              /\ cres' = [build_success |-> ok,
                          have_doc      |-> IF ok THEN doc ELSE FALSE,
                          rustc_version |-> v]
              /\ bpc' = "add_sources_into_database"
              /\ UNCHANGED result
    /\ UNCHANGED <<options, cache, db_cache, caller, world, pkg, cache_at_call,
                   stored, local_dirs, not_build_vars>>

AddSourcesOnlyAfterSuccess ==
    /\ bpc = "add_sources_into_database"
    /\ LET prefix == "sources/" \o name_slash_version(pkg)
       IN  \/ /\ cres.build_success
              /\ did("add_path_into_database:" \o prefix \o ":ok")
              /\ stored' = stored \cup {prefix}
              /\ bpc' = IF cres.have_doc THEN "copy_documentation"
                        ELSE "add_package_into_database"
              /\ UNCHANGED result
           \/ /\ ~cres.build_success
              /\ bpc' = "add_package_into_database"
              /\ UNCHANGED <<result, trace, stored>>
           \/ /\ did("add_path_into_database:" \o prefix \o ":err")
              /\ ReturnWith("Err")
              /\ UNCHANGED stored
    /\ UNCHANGED <<options, cache, db_cache, caller, world, pkg, cres, cache_at_call,
                   local_dirs, not_build_vars>>

(* Line 72, lines 235-244. *)
AddSourcesIntoDatabase ==
    /\ bpc = "add_sources_into_database"
    /\ LET prefix == "sources/" \o name_slash_version(pkg)
       IN  \/ /\ did("add_path_into_database:" \o prefix \o ":ok")
              /\ stored' = stored \cup {prefix}
              /\ bpc' = IF cres.have_doc THEN "copy_documentation"
                        ELSE "add_package_into_database"
              /\ UNCHANGED result
           \/ /\ did("add_path_into_database:" \o prefix \o ":err")
              /\ ReturnWith("Err")
              /\ UNCHANGED stored
    /\ UNCHANGED <<options, cache, db_cache, caller, world, pkg, cres, cache_at_call,
                   local_dirs, not_build_vars>>

CopyDocumentationReturnsParseError ==
    /\ bpc = "copy_documentation"
    /\ IF parse_rustc_version(cres.rustc_version).panic
       THEN /\ did("parse_rustc_version:err")
            /\ ReturnWith("Err")
            /\ UNCHANGED local_dirs
       ELSE /\ did("copy_doc_dir:" \o parse_rustc_version(cres.rustc_version).value \o ":ok")
            /\ local_dirs' = local_dirs \cup {doc_dir(pkg)}
            /\ bpc' = "add_documentation_into_database"
            /\ UNCHANGED result
    /\ UNCHANGED <<options, cache, db_cache, caller, world, pkg, cres, cache_at_call,
                   stored, not_build_vars>>

(* Line 74, lines 139-155: parse_rustc_version panics on a version it does *)
(* not match; copy_doc_dir creates the local documentation directory.      *)
CopyDocumentation ==
    /\ bpc = "copy_documentation"
    /\ IF parse_rustc_version(cres.rustc_version).panic
       THEN /\ did("parse_rustc_version:panic")
            /\ Panic
            /\ UNCHANGED local_dirs
       ELSE \/ /\ did("copy_doc_dir:" \o parse_rustc_version(cres.rustc_version).value \o ":ok")
               /\ local_dirs' = local_dirs \cup {doc_dir(pkg)}
               /\ bpc' = "add_documentation_into_database"
               /\ UNCHANGED result
            \/ /\ did("copy_doc_dir:" \o parse_rustc_version(cres.rustc_version).value \o ":err")
               /\ ReturnWith("Err")
               /\ \/ UNCHANGED local_dirs
                  \/ local_dirs' = local_dirs \cup {doc_dir(pkg)}
    /\ UNCHANGED <<options, cache, db_cache, caller, world, pkg, cres, cache_at_call,
                   stored, not_build_vars>>

(* Line 75, lines 248-261. *)
AddDocumentationIntoDatabase ==
    /\ bpc = "add_documentation_into_database"
    /\ LET prefix == "rustdoc/" \o name_slash_version(pkg)
       IN  \/ /\ did("add_path_into_database:" \o prefix \o ":ok")
              /\ stored' = stored \cup {prefix}
              /\ bpc' = "add_package_into_database"
              /\ UNCHANGED result
           \/ /\ did("add_path_into_database:" \o prefix \o ":err")
              /\ ReturnWith("Err")
              /\ UNCHANGED stored
    /\ UNCHANGED <<options, cache, db_cache, caller, world, pkg, cres, cache_at_call,
                   local_dirs, not_build_vars>>

(* The record a build attempt leaves in the database. *)
record(kind, c, r) ==
    kind \o ":" \o canonical_name(c)
         \o (IF r.build_success THEN ":succeeded" ELSE ":failed")
         \o (IF r.have_doc THEN ":doc" ELSE ":nodoc")

(* Line 78. *)
AddPackageIntoDatabase ==
    /\ bpc = "add_package_into_database"
    /\ \/ /\ did("add_package_into_database:ok")
          /\ stored' = stored \cup {record("release", pkg, cres)}
          /\ bpc' = "add_build_into_database"
          /\ UNCHANGED result
       \/ /\ did("add_package_into_database:err")
          /\ ReturnWith("Err")
          /\ UNCHANGED stored
    /\ UNCHANGED <<options, cache, db_cache, caller, world, pkg, cres, cache_at_call,
                   local_dirs, not_build_vars>>

(* Line 79. *)
AddBuildIntoDatabase ==
    /\ bpc = "add_build_into_database"
    /\ \/ /\ did("add_build_into_database:ok")
          /\ stored' = stored \cup {record("build", pkg, cres)}
          /\ bpc' = "clean"
          /\ UNCHANGED result
       \/ /\ did("add_build_into_database:err")
          /\ ReturnWith("Err")
          /\ UNCHANGED stored
    /\ UNCHANGED <<options, cache, db_cache, caller, world, pkg, cres, cache_at_call,
                   local_dirs, not_build_vars>>

CleanRaisesBuildDirFailure ==
    /\ bpc = "clean"
    /\ LET rm_build == "chroot_command:rm -rf " \o canonical_name(pkg)
           rm_doc   == "remove_dir_all:" \o doc_dir(pkg)
           rm_src   == "remove_dir_all:" \o src_dir(pkg)
       IN  \/ /\ trace' = trace \o <<rm_build \o ":exit_nonzero">>
              /\ ReturnWith("Err")
              /\ UNCHANGED local_dirs
           \/ /\ doc_dir(pkg) \notin local_dirs
              /\ trace' = trace \o <<rm_build \o ":ok", rm_doc \o ":not_found">>
              /\ ReturnWith("Err")
              /\ UNCHANGED local_dirs
           \/ /\ doc_dir(pkg) \in local_dirs
              /\ src_dir(pkg) \in local_dirs
              /\ trace' = trace \o <<rm_build \o ":ok", rm_doc \o ":ok", rm_src \o ":ok">>
              /\ local_dirs' = local_dirs \ {doc_dir(pkg), src_dir(pkg)}
              /\ bpc' = "cache_insert"
              /\ UNCHANGED result
    /\ UNCHANGED <<options, cache, db_cache, caller, world, pkg, cres, cache_at_call,
                   stored, not_build_vars>>

(* Line 82, lines 159-179. remove_build_dir runs `rm -rf` in the sandbox   *)
(* and ignores how the command ended (it panics when the command cannot be *)
(* started). remove_dir_all fails on a directory that does not exist, or   *)
(* on an I/O error; the source directory is tried only after the           *)
(* documentation directory was removed.                                    *)
Clean ==
    /\ bpc = "clean"
    /\ LET rm_build == "chroot_command:rm -rf " \o canonical_name(pkg)
           rm_doc   == "remove_dir_all:" \o doc_dir(pkg)
           rm_src   == "remove_dir_all:" \o src_dir(pkg)
       IN  \/ /\ trace' = trace \o <<rm_build \o ":panic">>
              /\ Panic
              /\ UNCHANGED local_dirs
           \/ \E exit \in {":ok", ":exit_nonzero"} :
              \/ /\ doc_dir(pkg) \notin local_dirs
                 /\ trace' = trace \o <<rm_build \o exit, rm_doc \o ":not_found">>
                 /\ ReturnWith("Err")
                 /\ UNCHANGED local_dirs
              \/ /\ doc_dir(pkg) \in local_dirs
                 /\ trace' = trace \o <<rm_build \o exit, rm_doc \o ":err">>
                 /\ ReturnWith("Err")
                 /\ UNCHANGED local_dirs
              \/ /\ doc_dir(pkg) \in local_dirs
                 /\ src_dir(pkg) \notin local_dirs
                 /\ trace' = trace \o <<rm_build \o exit, rm_doc \o ":ok", rm_src \o ":not_found">>
                 /\ ReturnWith("Err")
                 /\ local_dirs' = local_dirs \ {doc_dir(pkg)}
              \/ /\ doc_dir(pkg) \in local_dirs
                 /\ src_dir(pkg) \in local_dirs
                 /\ trace' = trace \o <<rm_build \o exit, rm_doc \o ":ok", rm_src \o ":err">>
                 /\ ReturnWith("Err")
                 /\ local_dirs' = local_dirs \ {doc_dir(pkg)}
              \/ /\ doc_dir(pkg) \in local_dirs
                 /\ src_dir(pkg) \in local_dirs
                 /\ trace' = trace \o <<rm_build \o exit, rm_doc \o ":ok", rm_src \o ":ok">>
                 /\ local_dirs' = local_dirs \ {doc_dir(pkg), src_dir(pkg)}
                 /\ bpc' = "cache_insert"
                 /\ UNCHANGED result
    /\ UNCHANGED <<options, cache, db_cache, caller, world, pkg, cres, cache_at_call,
                   stored, not_build_vars>>

(* Lines 85-87. *)
CacheInsert ==
    /\ bpc = "cache_insert"
    /\ did("cache.insert:" \o canonical_name(pkg))
    /\ cache' = cache \cup {canonical_name(pkg)}
    /\ ReturnWith(IF cres.build_success THEN "Ok(true)" ELSE "Ok(false)")
    /\ UNCHANGED <<options, db_cache, caller, world, pkg, cres, cache_at_call,
                   stored, local_dirs, not_build_vars>>

(* A direct call is over. *)
Return ==
    /\ bpc = "returned"
    /\ caller = "direct"
    /\ caller' = "none"
    /\ Leave
    /\ UNCHANGED <<options, cache, db_cache, world, local_dirs, not_build_vars>>

(* Lines 30-35: build_world visits every crate of the index, unless        *)
(* update_sources fails.                                                   *)
BuildWorld ==
    /\ caller = "none"
    /\ \E order \in {o \in [1..Cardinality(Crates) -> Crates] :
                        \A i, j \in DOMAIN o : i # j => o[i] # o[j]} :
          world' = [todo |-> order, count |-> 0]
    /\ caller' = "build_world"
    /\ UNCHANGED <<options, cache, db_cache, bpc, pkg, cres, result, trace, cache_at_call,
                   stored, local_dirs, not_build_vars>>

(* Line 36. *)
BuildWorldCall ==
    /\ caller = "build_world"
    /\ bpc = "idle"
    /\ world.todo # <<>>
    /\ Enter(world.todo[1], "build_world")
    /\ UNCHANGED <<options, cache, db_cache, world, local_dirs, not_build_vars>>

(* Lines 37-45: the closure counts the Ok results and inserts the crate    *)
(* into the cache whatever build_package returned; a panic unwinds out of  *)
(* build_world.                                                            *)
BuildWorldAfter ==
    /\ caller = "build_world"
    /\ bpc = "returned"
    /\ Leave
    /\ IF result = "panic"
       THEN /\ caller' = "none"
            /\ world' = [todo |-> <<>>, count |-> 0]
            /\ UNCHANGED cache
       ELSE /\ world' = [todo  |-> Tail(world.todo),
                         count |-> IF result = "Err" THEN world.count ELSE world.count + 1]
            /\ cache' = cache \cup {canonical_name(pkg)}
            /\ UNCHANGED caller
    /\ UNCHANGED <<options, db_cache, local_dirs, not_build_vars>>

(* Line 46: the index is exhausted. *)
BuildWorldDone ==
    /\ caller = "build_world"
    /\ bpc = "idle"
    /\ world.todo = <<>>
    /\ caller' = "none"
    /\ world' = [todo |-> <<>>, count |-> 0]
    /\ UNCHANGED <<options, cache, db_cache, bpc, pkg, cres, result, trace, cache_at_call,
                   stored, local_dirs, not_build_vars>>

(* DocBuilder::new with its options, the caches as loaded, and the local   *)
(* directories an earlier run may have left.                               *)
InitBuildWith(opts, caches, dirs) ==
    /\ options \in opts
    /\ cache \in caches
    /\ db_cache \in caches
    /\ caller = "none"
    /\ world = [todo |-> <<>>, count |-> 0]
    /\ bpc = "idle"
    /\ pkg = <<"", "">>
    /\ cres = NoResult
    /\ result = "none"
    /\ trace = <<>>
    /\ cache_at_call = {}
    /\ stored = {}
    /\ local_dirs \in dirs

AllOptions == [skip_if_log_exists : BOOLEAN, skip_if_exists : BOOLEAN]

InitBuild ==
    InitBuildWith(AllOptions, SUBSET Identities,
                  {{}, {src_dir(c) : c \in Crates}})

NextBuild ==
    \/ CallBuildPackage
    \/ ConnectDb
    \/ SkipDecision
    \/ GetPackage
    \/ BuildPackageInChroot
    \/ AddSourcesIntoDatabase
    \/ CopyDocumentation
    \/ AddDocumentationIntoDatabase
    \/ AddPackageIntoDatabase
    \/ AddBuildIntoDatabase
    \/ Clean
    \/ CacheInsert
    \/ Return
    \/ BuildWorld
    \/ BuildWorldCall
    \/ BuildWorldAfter
    \/ BuildWorldDone

-----------------------------------------------------------------------------
(*                            Specifications                               *)
-----------------------------------------------------------------------------

(* The part of the state a specification does not exercise. *)
IdleMeta == InitMetaWith({DefaultMetadata}) /\ host_target = "x86_64-unknown-linux-gnu"

IdleQueue == InitQueue /\ locked = FALSE

IdleBuild == InitBuildWith({[skip_if_log_exists |-> FALSE, skip_if_exists |-> FALSE]}, {{}}, {{}})

InitTargets == InitMetaWith(TargetsInputs) /\ IdleQueue /\ IdleBuild /\ IdleVersion

InitCargoArgs == InitMetaWith(CargoInputs) /\ IdleQueue /\ IdleBuild /\ IdleVersion

InitEnvironment == InitMetaWith(EnvInputs) /\ IdleQueue /\ IdleBuild /\ IdleVersion

InitManifests == InitFromStr /\ IdleQueue /\ IdleBuild /\ IdleVersion

InitQueueWorkers == IdleMeta /\ InitQueue /\ IdleBuild /\ IdleVersion

InitDocBuilder == IdleMeta /\ IdleQueue /\ InitBuild /\ IdleVersion

InitTempdirs == IdleMeta /\ InitTempRoots /\ IdleBuild /\ IdleVersion

InitVersions == IdleMeta /\ IdleQueue /\ IdleBuild /\ InitVersion

SpecTargets == InitTargets /\ [][CallTargets]_vars

SpecCargoArgs == InitCargoArgs /\ [][CallCargoArgs]_vars

SpecEnvironment == InitEnvironment /\ [][CallEnvironmentVariables]_vars

SpecFromStr == InitManifests /\ [][CallFromStr]_vars

SpecQueue == InitQueueWorkers /\ [][NextQueue]_vars

SpecBuild == InitDocBuilder /\ [][NextBuild]_vars

SpecTempdirs == InitTempdirs /\ [][NextTempdirs]_vars

SpecParseVersion == InitVersions /\ [][CallParseRustcVersion]_vars

-----------------------------------------------------------------------------
(*                 Properties of DocBuilder::build_package                 *)
-----------------------------------------------------------------------------

(* The call made nothing but the attempt to connect to the database. *)
OnlyConnected ==
    /\ trace \in {<<"connect_db:ok">>, <<"connect_db:err">>}
    /\ stored = {}
    /\ cache = cache_at_call

(* The skip condition of the claims, on the caches as they were when       *)
(* build_package was called.                                               *)
SkipConditionAtCall ==
    \/ options.skip_if_log_exists /\ canonical_name(pkg) \in cache_at_call
    \/ options.skip_if_exists /\ canonical_name(pkg) \in db_cache

(* C1, as stated: whenever the skip condition holds for the package, that  *)
(* is skip_if_log_exists with the package in the local cache or            *)
(* skip_if_exists with it in the database cache, build_package returns     *)
(* the skipped result Ok(false), having fetched, run, stored and cleaned   *)
(* nothing and with the local cache as it was.                             *)
SkipAlwaysReturnsSkipped ==
    (bpc = "returned" /\ SkipConditionAtCall)
        => (result = "Ok(false)" /\ OnlyConnected)

(* C1, amended: under the skip condition build_package fetches, runs,      *)
(* stores and cleans nothing and leaves the local cache as it was; it      *)
(* returns the skipped result Ok(false) when connect_db succeeded, and the *)
(* error of connect_db when it failed.                                     *)
SkipReturnsSkippedOnceConnected ==
    (bpc = "returned" /\ SkipConditionAtCall)
        => /\ OnlyConnected
           /\ trace = <<"connect_db:ok">> => result = "Ok(false)"
           /\ trace = <<"connect_db:err">> => result = "Err"

LocalCacheAloneSkipsReached ==
    /\ bpc = "returned"
    /\ result = "Ok(false)"
    /\ options.skip_if_log_exists
    /\ ~options.skip_if_exists
    /\ canonical_name(pkg) \in cache_at_call
    /\ canonical_name(pkg) \notin db_cache
    /\ trace = <<"connect_db:ok">>

-----------------------------------------------------------------------------
(*                       Properties of queue_builder                       *)
-----------------------------------------------------------------------------

(* The worker w takes a step of its loop. *)
Steps(w) == qpc'[w] # qpc[w]

(* C2: when the build step of a worker panics, the queue is locked before  *)
(* the worker's next iteration starts; as long as nobody has unlocked it,  *)
(* the worker's lock check sets its state to Locked and ends the           *)
(* iteration, and the worker enters no build.                              *)
PanicLocksQueue ==
    [][\A w \in Workers :
        /\ (qpc[w] = "catch" /\ res[w] = "panic" /\ qpc'[w] = "loop")
                => (locked' /\ fault_lock'[w])
        /\ fault_lock[w] => locked
        /\ (fault_lock[w] /\ qpc[w] = "check_lock" /\ Steps(w))
                => (status'[w] = "Locked" /\ qpc'[w] = "loop")
        /\ (fault_lock[w] /\ Steps(w)) => qpc'[w] # "building"
      ]_vars

LockedAfterPanicReached ==
    \E w \in Workers :
        /\ fault_lock[w]
        /\ status[w] = "Locked"
        /\ prev_obs[w] = "locked"
        /\ queue_len > 0

(* C3, as stated: no worker ever leaves the loop of queue_builder, by      *)
(* returning or by a panic, and every worker can always take another step. *)
WorkerNeverStops ==
    \A w \in Workers :
        /\ qpc[w] \notin {"returned", "panicked"}
        /\ ENABLED WorkerStep(w)

(* C3, amended: queue_builder never returns, and a worker leaves the loop  *)
(* only by the panic of `expect` when lock() fails after its build step    *)
(* panicked; in every other state the worker can take another step.        *)
WorkerStopsOnlyWhenLockFails ==
    \A w \in Workers :
        /\ qpc[w] # "returned"
        /\ qpc[w] = "panicked" => (res[w] = "panic" /\ called(w, "lock:err"))
        /\ qpc[w] # "panicked" => ENABLED WorkerStep(w)

OneStoppedOneLoopingReached ==
    \E w, v \in Workers :
        /\ qpc[w] = "panicked"
        /\ ~locked
        /\ qpc[v] = "building"
        /\ prev_obs[v] = "query_error"

(* C4, as stated: a worker sleeps at the start of an iteration exactly     *)
(* when its previous iteration did not end with a build attempt.           *)
SleepsUnlessPreviousIterationBuilt ==
    \A w \in Workers :
        qpc[w] = "check_lock" => (called(w, "sleep") <=> prev_obs[w] # "build")

(* C4, amended: a worker sleeps at the start of an iteration exactly when  *)
(* its state is not QueueInProgress: it does not sleep after a build       *)
(* attempt, it sleeps after a fresh start, a lock seen and an empty queue, *)
(* and after a backlog query error, which leaves the state as it was, it   *)
(* sleeps unless the state is still QueueInProgress.                       *)
SleepsUnlessInProgress ==
    \A w \in Workers :
        qpc[w] = "check_lock" =>
            /\ called(w, "sleep") <=> status[w] # "QueueInProgress"
            /\ prev_obs[w] = "build" => ~called(w, "sleep")
            /\ prev_obs[w] \in {"fresh", "locked", "empty"} => called(w, "sleep")

NoSleepAfterQueryErrorReached ==
    \E w \in Workers :
        /\ qpc[w] = "check_lock"
        /\ prev_obs[w] = "query_error"
        /\ status[w] = "QueueInProgress"
        /\ ~called(w, "sleep")

(* C5: in an iteration in which is_locked() returns true the state becomes *)
(* Locked and the iteration ends there: it has called neither              *)
(* pending_count nor build_next_queue_package nor lock, and no step of it  *)
(* changes the lock.                                                       *)
LockedIterationOnlyObserves ==
    [][\A w \in Workers :
        /\ (qpc[w] = "check_lock" /\ locked /\ Steps(w))
                => /\ status'[w] = "Locked"
                   /\ qpc'[w] = "loop"
                   /\ Range(iter[w]) \subseteq
                        {"remove_tempdirs:ok", "remove_tempdirs:err", "report_error", "sleep"}
        /\ (qpc[w] \in {"loop", "sleep", "check_lock"} /\ Steps(w)) => locked' = locked
      ]_vars

LockSeenWithCratesQueuedReached ==
    \E w \in Workers :
        /\ qpc[w] = "loop"
        /\ status[w] = "Locked"
        /\ prev_obs[w] = "locked"
        /\ ~fault_lock[w]
        /\ queue_len > 0

-----------------------------------------------------------------------------
(*                     Properties of Metadata::targets                     *)
-----------------------------------------------------------------------------

(* C6: when default_target is set, the default target that targets()       *)
(* returns is that value, whatever the targets field holds.                *)
ExplicitDefaultTargetWins ==
    (mpc = "targets" /\ is_some(metadata.default_target))
        => build_targets.default_target = metadata.default_target[1]

ExplicitDefaultOverTargetsReached ==
    /\ mpc = "targets"
    /\ is_some(metadata.default_target)
    /\ is_some(metadata.targets)
    /\ Len(metadata.targets[1]) = 2
    /\ metadata.targets[1][1] # metadata.default_target[1]
    /\ metadata.targets[1][2] # metadata.default_target[1]

(* C7: with default_target unset, the returned default target is the first *)
(* element of a non-empty targets list, and HOST_TARGET when targets is    *)
(* empty or unset.                                                         *)
DefaultTargetFallback ==
    (mpc = "targets" /\ metadata.default_target = None)
        => IF is_some(metadata.targets) /\ Len(metadata.targets[1]) > 0
           THEN build_targets.default_target = metadata.targets[1][1]
           ELSE build_targets.default_target = host_target

FirstOfTargetsReached ==
    /\ mpc = "targets"
    /\ metadata.default_target = None
    /\ is_some(metadata.targets)
    /\ Len(metadata.targets[1]) = 2
    /\ metadata.targets[1][1] # metadata.targets[1][2]
    /\ metadata.targets[1][1] # host_target
    /\ build_targets.default_target = metadata.targets[1][1]

(* C8: the other_targets that targets() returns never contain the default  *)
(* target it returns.                                                      *)
OtherTargetsExcludeDefault ==
    mpc = "targets" => build_targets.default_target \notin build_targets.other_targets

DefaultAmongCandidatesReached ==
    /\ mpc = "targets"
    /\ is_some(metadata.targets)
    /\ build_targets.default_target \in Range(metadata.targets[1])
    /\ build_targets.other_targets # {}

(* C9: other_targets is exactly the set of the distinct elements of        *)
(* targets without the default target when targets is set, and exactly     *)
(* DEFAULT_TARGETS without the default target when it is unset.            *)
OtherTargetsExact ==
    mpc = "targets" =>
        LET d == build_targets.default_target
        IN  IF is_some(metadata.targets)
            THEN build_targets.other_targets =
                    {t \in TargetNames \cup Range(metadata.targets[1]) :
                        /\ \E i \in 1..Len(metadata.targets[1]) : metadata.targets[1][i] = t
                        /\ t # d}
            ELSE build_targets.other_targets =
                    {DEFAULT_TARGETS[i] : i \in 1..Len(DEFAULT_TARGETS)} \ {d}

DuplicatesCollapseReached ==
    /\ mpc = "targets"
    /\ is_some(metadata.default_target)
    /\ is_some(metadata.targets)
    /\ Len(metadata.targets[1]) = 2
    /\ metadata.targets[1][1] = metadata.targets[1][2]
    /\ metadata.targets[1][1] # metadata.default_target[1]
    /\ build_targets.other_targets = {metadata.targets[1][1]}

-----------------------------------------------------------------------------
(*                    Properties of Metadata::cargo_args                   *)
-----------------------------------------------------------------------------

(* The elements of l with one space between neighbours. *)
RECURSIVE SpaceSeparated(_)
SpaceSeparated(l) ==
    IF Len(l) = 0 THEN ""
    ELSE IF Len(l) = 1 THEN l[1]
    ELSE l[1] \o " " \o SpaceSeparated(Tail(l))

(* C10: cargo_args() is "doc", "--lib", "--no-deps", then "--features" and *)
(* the features joined by one space iff features is set (an empty list     *)
(* gives the flag and the empty string), then "--all-features" iff         *)
(* all_features, then "--no-default-features" iff no_default_features, in  *)
(* that order and with nothing else.                                       *)
CargoArgsExact ==
    mpc = "cargo_args" =>
        cargo_args_ret =
            <<"doc", "--lib", "--no-deps">>
            \o (IF metadata.features # None
                THEN <<"--features", SpaceSeparated(metadata.features[1])>>
                ELSE <<>>)
            \o (IF metadata.all_features THEN <<"--all-features">> ELSE <<>>)
            \o (IF metadata.no_default_features THEN <<"--no-default-features">> ELSE <<>>)

EmptyFeaturesWithBothFlagsReached ==
    /\ mpc = "cargo_args"
    /\ metadata.features = Some(<<>>)
    /\ metadata.all_features
    /\ metadata.no_default_features
    /\ Len(cargo_args_ret) = 7
    /\ cargo_args_ret[5] = ""

(* C11: whatever the features list of the manifest holds, no element of    *)
(* cargo_args() is the token "--target".                                   *)
CargoArgsNeverHoldTarget ==
    mpc = "cargo_args" =>
        \A i \in DOMAIN cargo_args_ret : cargo_args_ret[i] # "--target"

-----------------------------------------------------------------------------
(*              Properties of Metadata::environment_variables              *)
-----------------------------------------------------------------------------

(* The value of a flags key: the arguments with one space between them,    *)
(* the empty string when the list is unset.                                *)
FlagsOf(args) == IF args = None THEN "" ELSE SpaceSeparated(args[1])

(* C12: environment_variables() has exactly the keys RUSTFLAGS,            *)
(* RUSTDOCFLAGS and DOCS_RS; RUSTFLAGS is rustc_args and RUSTDOCFLAGS is   *)
(* rustdoc_args joined by one space, each the empty string, with the key   *)
(* present, when the list is unset; DOCS_RS is "1".                        *)
EnvironmentExact ==
    mpc = "environment_variables" =>
        /\ DOMAIN env_ret = {"RUSTFLAGS", "RUSTDOCFLAGS", "DOCS_RS"}
        /\ env_ret["RUSTFLAGS"] = FlagsOf(metadata.rustc_args)
        /\ env_ret["RUSTDOCFLAGS"] = FlagsOf(metadata.rustdoc_args)
        /\ env_ret["DOCS_RS"] = "1"

UnsetAndTwoArgumentsReached ==
    /\ mpc = "environment_variables"
    /\ metadata.rustc_args = None
    /\ metadata.rustdoc_args = Some(<<"-Z", "--cap-lints">>)
    /\ "RUSTFLAGS" \in DOMAIN env_ret
    /\ env_ret["RUSTFLAGS"] = ""
    /\ env_ret["RUSTDOCFLAGS"] = "-Z --cap-lints"

-----------------------------------------------------------------------------
(*                     Properties of Metadata::from_str                    *)
-----------------------------------------------------------------------------

(* The table t has a table under key. *)
HasTable(t, key) == key \in DOMAIN t /\ t[key].kind = "Table"

(* The manifest has the four nested tables package, metadata, docs, rs. *)
SectionPresent ==
    LET root == manifest.denotes.val
    IN  /\ HasTable(root, "package")
        /\ HasTable(root["package"].val, "metadata")
        /\ HasTable(root["package"].val["metadata"].val, "docs")
        /\ HasTable(root["package"].val["metadata"].val["docs"].val, "rs")

AllUnset ==
    [ features |-> <<>>, all_features |-> FALSE, no_default_features |-> FALSE,
      default_target |-> <<>>, rustc_args |-> <<>>, rustdoc_args |-> <<>>, targets |-> <<>> ]

(* C13: from_str returns an error exactly when the manifest is not         *)
(* well-formed TOML; for a well-formed manifest without the table          *)
(* package.metadata.docs.rs (one of the four nested tables missing) it     *)
(* returns the default Metadata: every list unset, both flags false, no    *)
(* default target.                                                         *)
ErrorIffMalformedDefaultIfNoSection ==
    mpc = "from_str" =>
        /\ from_str_ret[1] = "Err" <=> ~manifest.well_formed
        /\ (manifest.well_formed /\ ~SectionPresent) => from_str_ret = <<"Ok", AllUnset>>

DocsTableMissingReached ==
    /\ mpc = "from_str"
    /\ manifest.well_formed
    /\ HasTable(manifest.denotes.val, "package")
    /\ HasTable(manifest.denotes.val["package"].val, "metadata")
    /\ "docs" \notin DOMAIN manifest.denotes.val["package"].val["metadata"].val
    /\ from_str_ret = <<"Ok", AllUnset>>

-----------------------------------------------------------------------------
(*                    Properties of parse_rustc_version                    *)
-----------------------------------------------------------------------------

(* The parser has returned for a string of the shape                       *)
(* `name version (hash YYYY-MM-DD)`.                                       *)
ShapedParsed == vpc = "returned" /\ shape # None

DateOf(sh) == sh.year \o sh.month \o sh.day

(* C14, as stated: for a string of the shape the parser returns            *)
(* YYYYMMDD-name-hash, the tag carrying the name token.                    *)
TagCarriesName ==
    ShapedParsed =>
        /\ ~tag.panic
        /\ tag.value = DateOf(shape[1]) \o "-" \o shape[1].name \o "-" \o shape[1].hash

(* C14, amended: for a string of the shape the parser returns a tag made   *)
(* of the date YYYYMMDD, a hyphen, the version token, a hyphen and the     *)
(* commit hash; the name token is not part of it.                          *)
TagCarriesVersionNotName ==
    ShapedParsed =>
        LET sh == shape[1]
            v  == tag.value
            n  == Len(sh.version)
        IN  /\ ~tag.panic
            /\ Len(v) = 9 + n + 1 + Len(sh.hash)
            /\ SubSeq(v, 1, 9) = DateOf(sh) \o "-"
            /\ SubSeq(v, 10, 9 + n) = sh.version
            /\ SubSeq(v, 10 + n, Len(v)) = "-" \o sh.hash
            /\ v # DateOf(sh) \o "-" \o sh.name \o "-" \o sh.hash

ToolnameDroppedReached ==
    /\ vpc = "returned"
    /\ version_in = "toolname 1.10.0-nightly (57ef01513 2016-05-23)"
    /\ shape # None
    /\ tag = [panic |-> FALSE, value |-> "20160523-1.10.0-nightly-57ef01513"]

(* C15: for a string of the shape parse_rustc_version returns              *)
(* YYYYMMDD-version-hash: the tag carries the version token and drops the  *)
(* name.                                                                   *)
TagIsDateVersionHash ==
    ShapedParsed =>
        /\ ~tag.panic
        /\ tag.value = DateOf(shape[1]) \o "-" \o shape[1].version \o "-" \o shape[1].hash

TestStringsParsedReached ==
    /\ vpc = "returned"
    /\ shape # None
    /\ \/ /\ version_in = "rustc 1.10.0-nightly (57ef01513 2016-05-23)"
          /\ tag.value = "20160523-1.10.0-nightly-57ef01513"
       \/ /\ version_in = "cratesfyi 0.2.0 (ba9ae23 2016-05-26)"
          /\ tag.value = "20160526-0.2.0-ba9ae23"

-----------------------------------------------------------------------------
(*                      Properties of remove_tempdirs                      *)
-----------------------------------------------------------------------------

(* The directories of the temp root whose name starts with the prefix. *)
PrefixedDirs(fs) ==
    {e \in fs : /\ e.parent = ""
                /\ e.is_dir
                /\ Len(e.name) >= 11
                /\ SubSeq(e.name, 1, 11) = "docsrs-docs"}

(* The worker w runs remove_tempdirs in this step and it returns Ok. *)
ReclaimsOk(w) == qpc[w] = "loop" /\ Steps(w) /\ iter'[w] = <<"remove_tempdirs:ok">>

(* C16: when remove_tempdirs returns Ok, every directory of the temp root  *)
(* whose name starts with the prefix is gone with its contents, and every  *)
(* other entry (a prefixed plain file, a directory or file without the     *)
(* prefix, and what such a directory contains) is still there.             *)
ReclaimsExactlyPrefixedDirs ==
    [][\A w \in Workers :
        ReclaimsOk(w) =>
            tempfs' = {e \in tempfs :
                         /\ e \notin PrefixedDirs(tempfs)
                         /\ \A d \in PrefixedDirs(tempfs) : e.parent # d.name}
      ]_vars

OnlyStaleDirsGoneReached ==
    /\ \E w \in Workers : iter[w] = <<"remove_tempdirs:ok">>
    /\ \A w \in Workers : ~called(w, "remove_tempdirs:err")
    /\ tempfs = OtherEntries \cup NestedEntries

-----------------------------------------------------------------------------
(*            Properties of the build sequence of build_package            *)
-----------------------------------------------------------------------------

(* The calls t end with the cleanup of c completed, and none has failed. *)
ends_with(x, suffix) ==
    Len(x) >= Len(suffix) /\ SubSeq(x, Len(x) - Len(suffix) + 1, Len(x)) = suffix

CompletedThroughCleanup(t, c) ==
    /\ \E i \in DOMAIN t : t[i] = "get_package:" \o c[1] \o " =" \o c[2] \o ":ok"
    /\ \E i \in DOMAIN t : t[i] = "add_build_into_database:ok"
    /\ \E i \in DOMAIN t : t[i] = "remove_dir_all:src/" \o c[1] \o "/" \o c[2] \o ":ok"
    /\ \A i \in DOMAIN t : ~ends_with(t[i], ":err")

(* C17: an identity enters the local cache only in a step that follows the *)
(* whole sequence for it (fetch, build, persistence, records, cleanup)     *)
(* completed without error, cleanup included; an attempt that ended in an  *)
(* error or a skip adds nothing; and every attempt that returns after      *)
(* such a completion, the build itself failed or not, has added it.        *)
CacheInsertOnlyOnCompletion ==
    [][ /\ \A c \in Crates :
            (c[1] \o "-" \o c[2] \in cache' /\ c[1] \o "-" \o c[2] \notin cache)
                => (pkg = c /\ CompletedThroughCleanup(trace, c))
        /\ (bpc' = "returned" /\ CompletedThroughCleanup(trace', pkg'))
                => pkg'[1] \o "-" \o pkg'[2] \in cache'
      ]_vars

(* The sandbox build of the current attempt has returned its result and    *)
(* build_package has taken its next step.                                  *)
SandboxBuildReturned ==
    /\ \E i \in DOMAIN trace :
          trace[i] = "chroot_command:cratesfyi doc " \o pkg[1] \o " =" \o pkg[2]
    /\ bpc # "add_sources_into_database"
    /\ ~(result = "panic"
         /\ trace[Len(trace)] = "chroot_command:cratesfyi doc " \o pkg[1] \o " =" \o pkg[2])

SourcesSubmission(c) ==
    { "add_path_into_database:sources/" \o c[1] \o "/" \o c[2] \o ":ok",
      "add_path_into_database:sources/" \o c[1] \o "/" \o c[2] \o ":err" }

(* A call that persists documentation or inserts a record. *)
PersistsDocOrRecord(call) ==
    \/ starts_with(call, "copy_doc_dir:")
    \/ starts_with(call, "add_path_into_database:rustdoc/")
    \/ starts_with(call, "add_package_into_database:")
    \/ starts_with(call, "add_build_into_database:")

(* C18: in every attempt that was not skipped and whose fetch succeeded,   *)
(* once the sandbox build has returned, with success or with failure, the  *)
(* source tree has been submitted to storage under sources/name/version,   *)
(* and no documentation was persisted and no record inserted before it.    *)
SourcesSubmittedFirst ==
    /\ SandboxBuildReturned =>
            \E i \in DOMAIN trace : trace[i] \in SourcesSubmission(pkg)
    /\ \A j \in DOMAIN trace :
            PersistsDocOrRecord(trace[j]) =>
                \E i \in 1..(j - 1) :
                    trace[i] = "add_path_into_database:sources/"
                                   \o pkg[1] \o "/" \o pkg[2] \o ":ok"
    /\ \A i \in DOMAIN trace :
            trace[i] = "add_path_into_database:sources/" \o pkg[1] \o "/" \o pkg[2] \o ":ok"
                => "sources/" \o pkg[1] \o "/" \o pkg[2] \in stored

SourcesOfFailedBuildStoredReached ==
    /\ bpc = "returned"
    /\ pkg = <<"rand", "0.3.14">>
    /\ ~cres.build_success
    /\ result = "Ok(false)"
    /\ "sources/rand/0.3.14" \in stored
    /\ "add_package_into_database:ok" \in Range(trace)

(* The number of sandbox build commands the current attempt has run. *)
BuildInvocations ==
    Cardinality({i \in DOMAIN trace : starts_with(trace[i], "chroot_command:cratesfyi doc ")})

(* C19: an attempt whose sandbox build has returned has invoked the build  *)
(* command once for every resolved target of the package's build plan:     *)
(* the default target and each of the other targets.                       *)
OneInvocationPerTarget ==
    SandboxBuildReturned =>
        BuildInvocations = 1 + Cardinality(targets(metadata, host_target).other_targets)

-----------------------------------------------------------------------------
(*               Properties of the backlog query of the worker             *)
-----------------------------------------------------------------------------

(* How often the calls name build_next_queue_package. *)
BuildsIn(calls) ==
    Cardinality({i \in DOMAIN calls : calls[i] = "build_next_queue_package"})

(* C20: in an iteration that found the lock not held, a backlog query      *)
(* error leaves the worker's state as it was and ends the iteration, a     *)
(* backlog of zero sets the state to EmptyQueue and ends the iteration,    *)
(* both without a build, and a positive backlog sets the state to          *)
(* QueueInProgress, after which build_next_queue_package is called exactly *)
(* once before the iteration ends. The state becomes QueueInProgress       *)
(* nowhere else.                                                           *)
BacklogDecidesBuild ==
    [][\A w \in Workers :
        /\ (qpc[w] = "pending_count" /\ Steps(w)) =>
              /\ \E i \in DOMAIN iter[w] : iter[w][i] = "is_locked:false"
              /\ BuildsIn(iter[w]) = 0
              /\ \/ /\ prev_obs'[w] = "query_error"
                    /\ qpc'[w] = "loop"
                    /\ status'[w] = status[w]
                 \/ /\ queue_len = 0
                    /\ prev_obs'[w] = "empty"
                    /\ qpc'[w] = "loop"
                    /\ status'[w] = "EmptyQueue"
                 \/ /\ queue_len > 0
                    /\ qpc'[w] = "build"
                    /\ status'[w] = "QueueInProgress"
        /\ (qpc[w] = "build" /\ Steps(w)) =>
              /\ status[w] = "QueueInProgress"
              /\ qpc'[w] = "building"
              /\ BuildsIn(iter'[w]) = 1
        /\ (qpc[w] \in {"building", "catch"} /\ Steps(w)) =>
              /\ BuildsIn(iter[w]) = 1
              /\ BuildsIn(iter'[w]) <= 1
        /\ (status'[w] = "QueueInProgress" /\ status[w] # "QueueInProgress") =>
              (qpc[w] = "pending_count" /\ queue_len > 0)
      ]_vars

BuiltOnceAndSawEmptyReached ==
    \E w, v \in Workers :
        /\ qpc[w] = "catch"
        /\ status[w] = "QueueInProgress"
        /\ BuildsIn(iter[w]) = 1
        /\ status[v] = "EmptyQueue"
        /\ prev_obs[v] = "empty"

-----------------------------------------------------------------------------
(*              Properties of the build step of the worker                 *)
-----------------------------------------------------------------------------

(* C21: when build_next_queue_package returns an ordinary error, the       *)
(* worker reports it, leaves the lock as it is, keeps the state            *)
(* QueueInProgress and goes on to its next iteration.                      *)
OrdinaryErrorIsReportedOnly ==
    [][\A w \in Workers :
        /\ (qpc[w] = "building" /\ Steps(w) /\ res'[w] = "err") =>
              /\ iter'[w][Len(iter'[w])] = "report_error"
              /\ iter'[w][Len(iter'[w]) - 1] = "build_next_queue_package"
              /\ locked' = locked
              /\ status'[w] = "QueueInProgress"
        /\ (qpc[w] = "catch" /\ Steps(w) /\ res[w] = "err") =>
              /\ locked' = locked
              /\ fault_lock'[w] = fault_lock[w]
              /\ status'[w] = "QueueInProgress"
              /\ qpc'[w] = "loop"
              /\ prev_obs'[w] = "build"
      ]_vars

ErrorAgainAfterBuildReached ==
    \E w \in Workers :
        /\ qpc[w] = "catch"
        /\ res[w] = "err"
        /\ prev_obs[w] = "build"
        /\ ~called(w, "sleep")
        /\ ~locked
        /\ status[w] = "QueueInProgress"

(* C22: every iteration of a worker starts with remove_tempdirs, whatever  *)
(* the lock and the queue are; when it fails the error is reported and the *)
(* same iteration goes on to the sleep decision, the lock check and, with  *)
(* the lock not held and crates queued, the build.                         *)
ReclaimsFirstAndGoesOn ==
    \A w \in Workers :
        /\ qpc[w] = "loop" => (iter[w] = <<>> /\ ENABLED RemoveTempdirs(w))
        /\ qpc[w] # "loop" =>
              /\ Len(iter[w]) >= 1
              /\ iter[w][1] \in {"remove_tempdirs:ok", "remove_tempdirs:err"}
              /\ iter[w][1] = "remove_tempdirs:err" =>
                    /\ Len(iter[w]) >= 2
                    /\ iter[w][2] = "report_error"
                    /\ qpc[w] \in {"sleep", "check_lock", "pending_count", "build",
                                   "building", "catch", "panicked"}
        /\ qpc[w] = "sleep" => ENABLED Sleep(w)
        /\ qpc[w] = "check_lock" => ENABLED CheckLock(w)
        /\ qpc[w] = "pending_count" => ENABLED PendingCount(w)
        /\ qpc[w] = "build" => ENABLED BuildStart(w)

BuildsAfterFailedReclamationReached ==
    \E w \in Workers :
        /\ qpc[w] = "building"
        /\ iter[w][1] = "remove_tempdirs:err"
        /\ status[w] = "QueueInProgress"
        /\ BuildsIn(iter[w]) = 1

-----------------------------------------------------------------------------
(*               Properties of failed builds and of cleanup                *)
-----------------------------------------------------------------------------

(* No collaborator of the current attempt failed: no database call and no  *)
(* file operation ended in an error of its own, and no command failed to   *)
(* start.                                                                  *)
CollaboratorsWorked ==
    \A i \in DOMAIN trace : ~ends_with(trace[i], ":err") /\ ~ends_with(trace[i], ":panic")

(* C23: an attempt whose sandbox build exited non-zero, with the database  *)
(* and the file system working, inserts the package record and the build   *)
(* record with succeeded = false and has_documentation = false, and        *)
(* build_package returns a non-error result.                               *)
FailedBuildIsRecordedNotRaised ==
    (bpc = "returned" /\ SandboxBuildReturned /\ ~cres.build_success /\ CollaboratorsWorked)
        => /\ ~cres.have_doc
           /\ "release:" \o pkg[1] \o "-" \o pkg[2] \o ":failed:nodoc" \in stored
           /\ "build:" \o pkg[1] \o "-" \o pkg[2] \o ":failed:nodoc" \in stored
           /\ result = "Ok(false)"

(* The current attempt has run the removal named by call, however it ended. *)
Attempted(call) == \E i \in DOMAIN trace : starts_with(trace[i], call \o ":")

(* C24: every attempt that was not skipped and whose fetch succeeded ends, *)
(* when it returns, with the three removals made: the build directory in   *)
(* the sandbox, the local documentation directory and the local source     *)
(* directory, also after a failed persistence or record step and also when *)
(* no documentation was produced.                                          *)
EveryFetchedAttemptCleansUp ==
    (/\ bpc = "returned"
     /\ result # "panic"
     /\ \E i \in DOMAIN trace :
            trace[i] = "get_package:" \o pkg[1] \o " =" \o pkg[2] \o ":ok")
        => /\ Attempted("chroot_command:rm -rf " \o pkg[1] \o "-" \o pkg[2])
           /\ Attempted("remove_dir_all:doc/" \o pkg[1] \o "/" \o pkg[2])
           /\ Attempted("remove_dir_all:src/" \o pkg[1] \o "/" \o pkg[2])

(* How the three removals of the current attempt ended. *)
BuildDirRemovalFailed ==
    \E i \in DOMAIN trace :
        trace[i] = "chroot_command:rm -rf " \o pkg[1] \o "-" \o pkg[2] \o ":exit_nonzero"

LocalRemovalFailed ==
    \E i \in DOMAIN trace :
        /\ starts_with(trace[i], "remove_dir_all:")
        /\ ends_with(trace[i], ":err") \/ ends_with(trace[i], ":not_found")

(* What the attempt had persisted when cleanup began. *)
PersistedBeforeCleanup ==
    { "sources/" \o pkg[1] \o "/" \o pkg[2],
      record("release", pkg, cres), record("build", pkg, cres) }
    \cup (IF cres.have_doc THEN {"rustdoc/" \o pkg[1] \o "/" \o pkg[2]} ELSE {})

UnparseableVersionIsAnOrdinaryError ==
    (/\ bpc = "returned"
     /\ SandboxBuildReturned
     /\ cres.have_doc
     /\ parse_rustc_version(cres.rustc_version).panic
     /\ \E i \in DOMAIN trace :
           trace[i] = "add_path_into_database:sources/" \o pkg[1] \o "/" \o pkg[2] \o ":ok")
        => /\ result = "Err"
           /\ "release:" \o pkg[1] \o "-" \o pkg[2] \o ":succeeded:doc" \in stored
           /\ "build:" \o pkg[1] \o "-" \o pkg[2] \o ":succeeded:doc" \in stored

(* The strings of the fixed shape: a name token, a version token, then     *)
(* "(commitHash YYYY-MM-DD)" and nothing else.                             *)
FixedShape == {written(sh) : sh \in Shapes}

SourcesStoredInAttempt ==
    \E i \in DOMAIN trace :
        trace[i] = "add_path_into_database:sources/" \o pkg[1] \o "/" \o pkg[2] \o ":ok"

(* C27, as stated: a toolchain string that is not of the fixed shape is    *)
(* rejected by the parser, and the attempt that carries it fails, with or  *)
(* without documentation.                                                  *)
DeviatingVersionFailsTheAttempt ==
    (/\ bpc = "returned"
     /\ SandboxBuildReturned
     /\ SourcesStoredInAttempt
     /\ cres.rustc_version \notin FixedShape)
        => /\ parse_rustc_version(cres.rustc_version).panic
           /\ result \notin {"Ok(true)", "Ok(false)"}

(* C27, amended: the parser looks for " version (hash d-d-d)" anywhere in  *)
(* the string, so text before or after it and date fields of any number of *)
(* digits are accepted with the tag built from the matched fields; a       *)
(* string with no such part is rejected by a panic. Only an attempt that   *)
(* produced documentation parses the string: with a rejected string it     *)
(* ends in that panic, without one it goes on to the records.              *)
VersionParsedOnlyForDocumentation ==
    (/\ bpc = "returned"
     /\ SandboxBuildReturned
     /\ SourcesStoredInAttempt)
        => LET v == cres.rustc_version
               parsed == parse_rustc_version(v)
           IN  /\ v \in { "rustc 1.10.0-nightly (57ef01513 2016-05-23)",
                         "warning: rustc 1.10.0-nightly (57ef01513 2016-05-23)",
                         "rustc 1.10.0-nightly (57ef01513 2016-05-23) extra" }
                     => parsed = [panic |-> FALSE, value |-> "20160523-1.10.0-nightly-57ef01513"]
               /\ v = "rustc 1.10.0-nightly (57ef01513 16-5-23)"
                     => parsed = [panic |-> FALSE, value |-> "16523-1.10.0-nightly-57ef01513"]
               /\ v = "rustc 1.10.0-nightly" => parsed.panic
               /\ (cres.have_doc /\ parsed.panic)
                     => /\ result = "panic"
                        /\ trace[Len(trace)] = "parse_rustc_version:panic"
               /\ (cres.have_doc /\ ~parsed.panic)
                     => \E i \in DOMAIN trace :
                           starts_with(trace[i], "copy_doc_dir:" \o parsed.value \o ":")
               /\ ~cres.have_doc
                     => /\ Attempted("add_package_into_database")
                        /\ \A i \in DOMAIN trace :
                              /\ trace[i] # "parse_rustc_version:panic"
                              /\ ~starts_with(trace[i], "copy_doc_dir:")

RejectedVersionBuiltWithoutDocReached ==
    /\ bpc = "returned"
    /\ SandboxBuildReturned
    /\ cres.rustc_version = "rustc 1.10.0-nightly"
    /\ cres.build_success
    /\ ~cres.have_doc
    /\ result = "Ok(true)"
    /\ "release:" \o pkg[1] \o "-" \o pkg[2] \o ":succeeded:nodoc" \in stored

(* C28, as stated: at the moment a worker invokes build_next_queue_package *)
(* the shared lock is not set, in every interleaving of the workers and    *)
(* the operator.                                                           *)
NoBuildStartsWhileLocked ==
    [][\A w \in Workers :
        (qpc[w] = "build" /\ qpc'[w] = "building") => ~locked]_vars

(* C29, as stated: a prefixed temporary directory of a build in progress   *)
(* is never removed by reclamation, of the same worker or of another one   *)
(* sharing the temp root.                                                  *)
RunningBuildKeepsItsTempdir ==
    [][\A w \in Workers, v \in Workers :
        (/\ qpc[w] = "loop" /\ Steps(w)
         /\ qpc[v] = "building"
         /\ build_tempdir(v) \in tempfs)
            => build_tempdir(v) \in tempfs']_vars

(* C30: opening the connection is the first thing build_package does,      *)
(* before the skip decision; when it fails the attempt returns an error at *)
(* once, with no second connect_db, no fetch, no sandbox command, nothing  *)
(* stored and the local cache as it was at the call, whether or not the    *)
(* skip condition holds for the package.                                   *)
ConnectionFailureEndsTheAttempt ==
    /\ bpc \notin {"idle", "connect_db"}
            => /\ trace # <<>>
               /\ trace[1] \in {"connect_db:ok", "connect_db:err"}
    /\ (trace # <<>> /\ trace[1] = "connect_db:err")
            => /\ bpc = "returned"
               /\ result = "Err"
               /\ trace = <<"connect_db:err">>
               /\ stored = {}
               /\ cache = cache_at_call

ConnectionFailedForSkippableReached ==
    /\ bpc = "returned"
    /\ result = "Err"
    /\ trace = <<"connect_db:err">>
    /\ SkipConditionAtCall
    /\ cache = cache_at_call

(* The table package.metadata.docs.rs of the manifest, when it is present. *)
DocsRsTable == manifest.denotes.val["package"].val["metadata"].val["docs"].val["rs"].val

(* What a field of the given type is expected to hold for the key. *)
ListOrUnset(key) ==
    IF /\ key \in DOMAIN DocsRsTable
       /\ DocsRsTable[key].kind = "Array"
       /\ \A i \in DOMAIN DocsRsTable[key].val : DocsRsTable[key].val[i].kind = "String"
    THEN <<[i \in DOMAIN DocsRsTable[key].val |-> DocsRsTable[key].val[i].val]>>
    ELSE <<>>

FlagOrFalse(key) ==
    IF key \in DOMAIN DocsRsTable /\ DocsRsTable[key].kind = "Boolean"
    THEN DocsRsTable[key].val
    ELSE FALSE

StringOrUnset(key) ==
    IF key \in DOMAIN DocsRsTable /\ DocsRsTable[key].kind = "String"
    THEN <<DocsRsTable[key].val>>
    ELSE <<>>

(* C31: with the table package.metadata.docs.rs present, from_str succeeds *)
(* whatever the types of its fields, and every field is read on its own: a *)
(* list field holds the strings of its array, and is unset as a whole when *)
(* the value is not an array or one element is not a string; a flag holds  *)
(* its boolean, and is false when the value is not a boolean; the default  *)
(* target holds its string, and is unset when the value is not a string.   *)
WrongTypedFieldIsAbsent ==
    (mpc = "from_str" /\ manifest.well_formed /\ SectionPresent)
        => from_str_ret =
             <<"Ok", [ features            |-> ListOrUnset("features"),
                       no_default_features |-> FlagOrFalse("no-default-features"),
                       all_features        |-> FlagOrFalse("all-features"),
                       default_target      |-> StringOrUnset("default-target"),
                       targets             |-> ListOrUnset("targets"),
                       rustc_args          |-> ListOrUnset("rustc-args"),
                       rustdoc_args        |-> ListOrUnset("rustdoc-args") ]>>

MixedArrayUnsetOthersParsedReached ==
    /\ mpc = "from_str"
    /\ manifest.well_formed
    /\ SectionPresent
    /\ "features" \in DOMAIN DocsRsTable
    /\ DocsRsTable["features"] = Array(<<String("feature1"), Integer(1)>>)
    /\ "all-features" \in DOMAIN DocsRsTable
    /\ DocsRsTable["all-features"] = String("true")
    /\ "default-target" \in DOMAIN DocsRsTable
    /\ DocsRsTable["default-target"] = Boolean(TRUE)
    /\ "rustc-args" \in DOMAIN DocsRsTable
    /\ DocsRsTable["rustc-args"] = Integer(1)
    /\ from_str_ret[1] = "Ok"
    /\ from_str_ret[2].features = <<>>
    /\ ~from_str_ret[2].all_features
    /\ from_str_ret[2].default_target = <<>>
    /\ from_str_ret[2].rustc_args = <<>>
    /\ from_str_ret[2].targets = <<<<"x86_64-apple-darwin", "x86_64-pc-windows-msvc">>>>
    /\ from_str_ret[2].no_default_features

=============================================================================
